---- MODULE Spec2Model ----
(***************************************************************************)
(* ufw_tui.py: the Port entity, the status parser get_ports and the key    *)
(* loop of main, as a state machine.                                       *)
(*                                                                         *)
(* Text is a sequence of one-character strings, so that the regular        *)
(* expressions and str.strip / str.split of the source are computed on     *)
(* characters.  An external command (subprocess.run) returns with an exit  *)
(* status the program never reads; the status is a nondeterministic input. *)
(***************************************************************************)
EXTENDS Integers, Sequences, FiniteSets, TLC

VARIABLES
    pc,              \* position of main: "start", "loaded", "loop", "getch", "adding", "done", "aborted", "crashed"
    lines,           \* get_ports: result.stdout.splitlines()
    port_lst,        \* main: the list of Port objects
    current_index,   \* main: the selection cursor
    key_input,       \* main: the key read by the last stdscr.getch()
    user_input_lst,  \* main: the tokens of the add input being processed
    tok_i,           \* main: position of the for loop over user_input_lst (1-based)
    applied,         \* per Port of port_lst: what the external tool holds for it
    log,             \* effects of the current / last key handler, in order
    pre_lst,         \* port_lst as it was when the last key was read
    max_y,           \* main: the screen height read by the last draw of the list (0: none)
    start_index,     \* main: first index of the scroll window of the last draw
    end_index        \* main: end (exclusive) of the scroll window of the last draw

vars == <<pc, lines, port_lst, current_index, key_input, user_input_lst, tok_i,
          applied, log, pre_lst, max_y, start_index, end_index>>

view == <<max_y, start_index, end_index>>

-----------------------------------------------------------------------------
(* Bounds of the model *)

MaxLines == 4
MaxTokens == 2
MaxHeight == 4

-----------------------------------------------------------------------------
(* Characters *)

Range(s) == {s[i] : i \in DOMAIN s}

DigitSeq == <<"0", "1", "2", "3", "4", "5", "6", "7", "8", "9">>
UpperSeq == <<"A", "B", "C", "D", "E", "F", "G", "H", "I", "J", "K", "L", "M",
              "N", "O", "P", "Q", "R", "S", "T", "U", "V", "W", "X", "Y", "Z">>
LowerSeq == <<"a", "b", "c", "d", "e", "f", "g", "h", "i", "j", "k", "l", "m",
              "n", "o", "p", "q", "r", "s", "t", "u", "v", "w", "x", "y", "z">>

\* \d, \s and \w of the re module, on the ASCII characters
DigitChars == Range(DigitSeq)
SpaceChars == {" ", "\t"}
WordChars == DigitChars \cup Range(UpperSeq) \cup Range(LowerSeq) \cup {"_"}

IndexIn(seq, c) == CHOOSE i \in DOMAIN seq : seq[i] = c

\* ord(c) for a word character: the code point str comparison goes by
Ord(c) ==
    IF c \in DigitChars THEN 47 + IndexIn(DigitSeq, c)
    ELSE IF c \in Range(UpperSeq) THEN 64 + IndexIn(UpperSeq, c)
    ELSE IF c = "_" THEN 95
    ELSE 96 + IndexIn(LowerSeq, c)

\* a < b for two str values (lexicographic by code point, a proper prefix is smaller)
RECURSIVE StrLess(_, _)
StrLess(a, b) ==
    IF b = <<>> THEN FALSE
    ELSE IF a = <<>> THEN TRUE
    ELSE IF Ord(Head(a)) # Ord(Head(b)) THEN Ord(Head(a)) < Ord(Head(b))
    ELSE StrLess(Tail(a), Tail(b))

\* the regex engine's greedy run: first position >= i whose character is not in S
RECURSIVE Skip(_, _, _)
Skip(s, i, S) == IF i <= Len(s) /\ s[i] \in S THEN Skip(s, i + 1, S) ELSE i

\* the literal lit stands in s at position i
LitAt(s, i, lit) ==
    /\ i + Len(lit) - 1 <= Len(s)
    /\ SubSeq(s, i, i + Len(lit) - 1) = lit

\* (?:/(tcp|udp))? tried at position i: the protocol matched, or "" when the group is skipped
ProtoAt(s, i) ==
    IF LitAt(s, i, <<"/", "t", "c", "p">>) THEN "tcp"
    ELSE IF LitAt(s, i, <<"/", "u", "d", "p">>) THEN "udp"
    ELSE ""

ProtoChars(protocol) ==
    IF protocol = "tcp" THEN <<"t", "c", "p">> ELSE <<"u", "d", "p">>

-----------------------------------------------------------------------------
(* class Port *)

Port(port_num, allowed, protocol) ==
    [port_num |-> port_num, allowed |-> allowed, protocol |-> protocol]

str_port(self) ==
    IF self.protocol = "any" THEN self.port_num
    ELSE self.port_num \o <<"/">> \o ProtoChars(self.protocol)

\* each method: the argv handed to subprocess.run and the object afterwards
allow(self) ==
    [argv |-> <<"sudo", "ufw", "allow", str_port(self)>>,
     self |-> [self EXCEPT !.allowed = TRUE]]

deny(self) ==
    [argv |-> <<"sudo", "ufw", "deny", str_port(self)>>,
     self |-> [self EXCEPT !.allowed = FALSE]]

delete(self) ==
    [argv |-> <<"sudo", "ufw", "delete",
                IF self.allowed THEN "allow" ELSE "deny", str_port(self)>>,
     self |-> self]

\* a slip of line 49: toggle that allows whatever the state
toggle_AlwaysAllow(self) == allow(self)

toggle(self) == IF self.allowed THEN deny(self) ELSE allow(self)

-----------------------------------------------------------------------------
(* get_ports *)

\* re.match(r'^\[\s*(\d+)\]', line)
NumberedMatch(line) ==
    /\ LitAt(line, 1, <<"[">>)
    /\ LET d == Skip(line, 2, SpaceChars)
           e == Skip(line, d, DigitChars)
       IN  e > d /\ LitAt(line, e, <<"]">>)

\* re.match(r'^\[\s*\d+\]\s+(\w+)(?:/(tcp|udp))?\s+(ALLOW|DENY)', line):
\* [matched, g1, g2 ("" for None), g3]
RuleMatch(line) ==
    LET none == [matched |-> FALSE, g1 |-> <<>>, g2 |-> "", g3 |-> ""]
    IN  IF ~NumberedMatch(line) THEN none
        ELSE
        LET d  == Skip(line, 2, SpaceChars)
            e  == Skip(line, d, DigitChars)
            s1 == e + 1
            w  == Skip(line, s1, SpaceChars)
            x  == Skip(line, w, WordChars)
            g2 == ProtoAt(line, x)
            s2 == IF g2 = "" THEN x ELSE x + 4
            a  == Skip(line, s2, SpaceChars)
            g3 == IF LitAt(line, a, <<"A", "L", "L", "O", "W">>) THEN "ALLOW"
                  ELSE IF LitAt(line, a, <<"D", "E", "N", "Y">>) THEN "DENY"
                  ELSE ""
        IN  IF w > s1 /\ x > w /\ a > s2 /\ g3 # ""
            THEN [matched |-> TRUE, g1 |-> SubSeq(line, w, x - 1), g2 |-> g2, g3 |-> g3]
            ELSE none

\* list.sort(key=lambda port: port.port_num): stable, ascending by port_num
RECURSIVE SortInsert(_, _)
SortInsert(sorted, p) ==
    IF sorted = <<>> THEN <<p>>
    ELSE LET last == sorted[Len(sorted)]
         IN  IF StrLess(p.port_num, last.port_num)
             THEN Append(SortInsert(SubSeq(sorted, 1, Len(sorted) - 1), p), last)
             ELSE Append(sorted, p)

\* a slip of line 102: the list is returned as parsed
SortByPortNum_Unsorted(lst) == lst

RECURSIVE SortByPortNum(_)
SortByPortNum(lst) ==
    IF lst = <<>> THEN <<>>
    ELSE SortInsert(SortByPortNum(SubSeq(lst, 1, Len(lst) - 1)), lst[Len(lst)])

\* [line for line in lines if re.match(r'^\[\s*(\d+)\]', line)]
SelectSeqNumbered(ls) == SelectSeq(ls, NumberedMatch)

\* a slip of line 82: the list is not cut
FirstHalf_Uncut(port_line_lst) == port_line_lst

\* port_line_lst[:len(port_line_lst) // 2]
FirstHalf(port_line_lst) == SubSeq(port_line_lst, 1, Len(port_line_lst) \div 2)

\* a slip of lines 78-79: the parity of the numbered lines is not checked
get_ports_NoParity(ls) ==
    LET port_line_lst == SelectSeq(ls, NumberedMatch)
        half == SubSeq(port_line_lst, 1, Len(port_line_lst) \div 2)
        bad == {i \in DOMAIN half : ~RuleMatch(half[i]).matched}
        mk(line) == LET m == RuleMatch(line)
                    IN  Port(m.g1, m.g3 = "ALLOW", IF m.g2 = "" THEN "any" ELSE m.g2)
    IN  IF bad # {}
        THEN [err |-> "Invalid line",
              line |-> half[CHOOSE i \in bad : \A j \in bad : i <= j],
              ports |-> <<>>]
        ELSE [err |-> "", line |-> <<>>,
              ports |-> SortByPortNum([i \in DOMAIN half |-> mk(half[i])])]

\* a slip of lines 91-92: a retained line that fails the pattern is skipped
get_ports_SkipsBadLine(ls) ==
    LET port_line_lst == SelectSeq(ls, NumberedMatch)
        half == SubSeq(port_line_lst, 1, Len(port_line_lst) \div 2)
        good == SelectSeq(half, LAMBDA l : RuleMatch(l).matched)
        mk(line) == LET m == RuleMatch(line)
                    IN  Port(m.g1, m.g3 = "ALLOW", IF m.g2 = "" THEN "any" ELSE m.g2)
    IN  IF Len(port_line_lst) % 2 # 0
        THEN [err |-> "The amount of ports are not diviced by 2", line |-> <<>>, ports |-> <<>>]
        ELSE [err |-> "", line |-> <<>>,
              ports |-> SortByPortNum([i \in DOMAIN good |-> mk(good[i])])]

\* the body of get_ports after the status command returned its lines:
\* [err ("" when it returns), line (the line an error names), ports]
get_ports(ls) ==
    LET port_line_lst == SelectSeqNumbered(ls)
        half == FirstHalf(port_line_lst)
        bad == {i \in DOMAIN half : ~RuleMatch(half[i]).matched}
        mk(line) == LET m == RuleMatch(line)
                    IN  Port(m.g1, m.g3 = "ALLOW", IF m.g2 = "" THEN "any" ELSE m.g2)
    IN  IF Len(port_line_lst) % 2 # 0
        THEN [err |-> "The amount of ports are not diviced by 2", line |-> <<>>, ports |-> <<>>]
        ELSE IF bad # {}
        THEN [err |-> "Invalid line",
              line |-> half[CHOOSE i \in bad : \A j \in bad : i <= j],
              ports |-> <<>>]
        ELSE [err |-> "", line |-> <<>>,
              ports |-> SortByPortNum([i \in DOMAIN half |-> mk(half[i])])]

-----------------------------------------------------------------------------
(* input_window and the add branch's token handling *)

\* str.strip(): leading and trailing whitespace removed
RECURSIVE Strip(_)
Strip(s) ==
    IF s = <<>> THEN s
    ELSE IF Head(s) \in SpaceChars THEN Strip(Tail(s))
    ELSE IF s[Len(s)] \in SpaceChars THEN Strip(SubSeq(s, 1, Len(s) - 1))
    ELSE s

\* input_window returns input_str.strip() of what was typed
input_window(typed) == Strip(typed)

\* str.split(' '): the pieces between single spaces (empty pieces kept)
RECURSIVE Split(_)
Split(s) ==
    LET sp == {i \in DOMAIN s : s[i] = " "}
    IN  IF sp = {} THEN <<s>>
        ELSE LET i == CHOOSE k \in sp : \A j \in sp : k <= j
             IN  <<SubSeq(s, 1, i - 1)>> \o Split(SubSeq(s, i + 1, Len(s)))

\* re.match(r'(!)?(\w+)(?:/(tcp|udp))?', port_input): [matched, g1, g2, g3 ("" for None)]
AddMatch(port_input) ==
    LET b == IF LitAt(port_input, 1, <<"!">>) THEN 2 ELSE 1
        x == Skip(port_input, b, WordChars)
    IN  IF x > b
        THEN [matched |-> TRUE, g1 |-> IF b = 2 THEN "!" ELSE "",
              g2 |-> SubSeq(port_input, b, x - 1), g3 |-> ProtoAt(port_input, x)]
        ELSE [matched |-> FALSE, g1 |-> "", g2 |-> <<>>, g3 |-> ""]

\* a slip of line 261: the marker read the wrong way round
PortOfMatch_Inverted(m) == Port(m.g2, m.g1 = "!", IF m.g3 = "" THEN "any" ELSE m.g3)

\* Port(port_num=match.group(2), allowed=match.group(1) != '!', protocol=match.group(3) or 'any')
PortOfMatch(m) == Port(m.g2, m.g1 # "!", IF m.g3 = "" THEN "any" ELSE m.g3)

\* a slip of line 266: only a Port with the same disposition counts as existing
AlreadyExists_SameDisposition(port, lst) ==
    \E i \in DOMAIN lst :
        lst[i].port_num = port.port_num /\ lst[i].allowed = port.allowed

\* port.port_num in [port.port_num for port in port_lst]
AlreadyExists(port, lst) == \E i \in DOMAIN lst : lst[i].port_num = port.port_num

-----------------------------------------------------------------------------
(* Effects of a handler, as the log records them *)

RunEntry(argv, ok) == [op |-> "run", argv |-> argv, ok |-> ok, msg |-> <<>>]
PopupEntry(msg) == [op |-> "popup", argv |-> <<>>, ok |-> TRUE, msg |-> msg]
AppendEntry == [op |-> "append", argv |-> <<>>, ok |-> TRUE, msg |-> <<>>]
RaiseEntry(msg) == [op |-> "raise", argv |-> <<>>, ok |-> FALSE, msg |-> msg]

\* what the external tool holds after a command that set disposition `allowed`
Disposition(allowed) == IF allowed THEN "allow" ELSE "deny"

\* lst[i] of a Python list of length n: the 1-based position, 0 when IndexError
PyIndex(i, n) ==
    IF 0 <= i /\ i < n THEN i + 1
    ELSE IF i < 0 /\ -n <= i THEN n + i + 1
    ELSE 0

RemoveAt(lst, k) == SubSeq(lst, 1, k - 1) \o SubSeq(lst, k + 1, Len(lst))

-----------------------------------------------------------------------------
(* Inputs *)

Sp == <<" ">>
ALLOW == <<"A", "L", "L", "O", "W">>
DENY == <<"D", "E", "N", "Y">>

\* lines of `ufw status numbered`
Line22 == <<"[", " ", "1", "]">> \o Sp \o <<"2", "2">> \o Sp \o ALLOW \o Sp \o <<"I", "N">>
Line8tcp == <<"[", " ", "2", "]">> \o Sp \o <<"8", "/", "t", "c", "p">> \o Sp \o Sp \o DENY
Line22v6 == <<"[", "1", "0", "]">> \o Sp \o <<"2", "2">> \o Sp \o <<"(", "v", "6", ")">> \o Sp \o ALLOW
LineHeader == <<"S", "t", "a", "t", "u", "s", ":">> \o Sp \o <<"a", "c", "t", "i", "v", "e">>

LinePool == {Line22, Line8tcp, Line22v6, LineHeader}

SeqsUpTo(S, n) == UNION {[1..k -> S] : k \in 0..n}

StatusTexts == SeqsUpTo(LinePool, MaxLines)

\* pieces of text the operator types in the add prompt; the last one starts
\* with a space, so that inputs have leading and doubled spaces
TypedPieces ==
    { <<"2", "2">>,
      <<"2", "2", "/", "t", "c", "p">>,
      <<"2", "2", "/", "x">>,
      <<"!", "8">>,
      <<" ", "!">> }

RECURSIVE Join(_)
Join(toks) ==
    IF toks = <<>> THEN <<>>
    ELSE IF Len(toks) = 1 THEN toks[1]
    ELSE toks[1] \o Sp \o Join(Tail(toks))

TypedInputs == {Join(toks) : toks \in SeqsUpTo(TypedPieces, MaxTokens)}

\* the header takes two rows of the screen (visible_height = max_y - 2)
HeaderRows == 2

\* screen heights stdscr.getmaxyx() reports: at least one row for the list
Heights == (HeaderRows + 1)..MaxHeight

-----------------------------------------------------------------------------
(* The state machine *)

Init ==
    /\ pc = "start"
    /\ lines \in StatusTexts
    /\ port_lst = <<>>
    /\ current_index = 0
    /\ key_input = ""
    /\ user_input_lst = <<>>
    /\ tok_i = 0
    /\ applied = <<>>
    /\ log = <<>>
    /\ pre_lst = <<>>
    /\ max_y = 0
    /\ start_index = 0
    /\ end_index = 0

\* main, line 189: port_lst = get_ports(); a ValueError aborts before the loop
GetPorts ==
    /\ pc = "start"
    /\ LET r == get_ports(lines)
       IN  IF r.err # ""
           THEN /\ pc' = "aborted"
                /\ log' = <<RaiseEntry(<<r.err, r.line>>)>>
                /\ UNCHANGED <<port_lst, applied>>
           ELSE /\ pc' = "loaded"
                /\ port_lst' = r.ports
                /\ applied' = [i \in DOMAIN r.ports |-> Disposition(r.ports[i].allowed)]
                /\ log' = <<>>
    /\ UNCHANGED <<lines, current_index, key_input, user_input_lst, tok_i, pre_lst, view>>

\* main, line 190: current_index = 0, then the loop; get_ports' locals are gone
EnterLoop ==
    /\ pc = "loaded"
    /\ pc' = "loop"
    /\ current_index' = 0
    /\ lines' = <<>>
    /\ UNCHANGED <<port_lst, key_input, user_input_lst, tok_i, applied, log, pre_lst, view>>

\* a slip of line 209: the window starts one row too high
scroll_start_OffByOne(index, visible_height) ==
    IF index >= visible_height
    THEN (IF index - visible_height > 0 THEN index - visible_height ELSE 0)
    ELSE 0

\* max(0, current_index - visible_height + 1) if current_index >= visible_height else 0
scroll_start(index, visible_height) ==
    IF index >= visible_height
    THEN (IF index - visible_height + 1 > 0 THEN index - visible_height + 1 ELSE 0)
    ELSE 0

\* min(len(port_lst), start_index + visible_height)
scroll_end(total, start, visible_height) ==
    IF total < start + visible_height THEN total ELSE start + visible_height

\* top of `while True`, lines 193-217: the screen is drawn from port_lst and
\* current_index (the scroll window is computed when the list is not empty),
\* then getch() blocks.  What the previous handler left behind (its key, its
\* effects, the add branch's locals) is dead from here on.
Render ==
    /\ pc = "loop"
    /\ IF port_lst = <<>>
       THEN UNCHANGED view
       ELSE \E my \in Heights :
            LET visible_height == my - HeaderRows
                start == scroll_start(current_index, visible_height)
            IN  /\ max_y' = my
                /\ start_index' = start
                /\ end_index' = scroll_end(Len(port_lst), start, visible_height)
    /\ pc' = "getch"
    /\ key_input' = ""
    /\ log' = <<>>
    /\ pre_lst' = port_lst
    /\ user_input_lst' = <<>>
    /\ tok_i' = 0
    /\ UNCHANGED <<lines, port_lst, current_index, applied>>

\* stdscr.getch() returned k; the scroll window of the draw before it is dead
\* (the next draw computes it anew)
ReadKey(k) ==
    /\ pc = "getch"
    /\ key_input' = k
    /\ max_y' = 0 /\ start_index' = 0 /\ end_index' = 0
    /\ UNCHANGED <<lines, pre_lst>>

NoAddLocals == UNCHANGED <<user_input_lst, tok_i>>

Quit ==
    /\ ReadKey("q")
    /\ pc' = "done"
    /\ log' = <<>>
    /\ NoAddLocals
    /\ UNCHANGED <<port_lst, current_index, applied>>

Up ==
    /\ ReadKey("KEY_UP")
    /\ current_index' = IF current_index > 0 THEN current_index - 1 ELSE current_index
    /\ pc' = "loop"
    /\ log' = <<>>
    /\ NoAddLocals
    /\ UNCHANGED <<port_lst, applied>>

\* a slip of line 230: the bound is len(port_lst) instead of len(port_lst) - 1
Down_OffByOne ==
    /\ ReadKey("KEY_DOWN")
    /\ current_index' = IF current_index < Len(port_lst)
                        THEN current_index + 1 ELSE current_index
    /\ pc' = "loop"
    /\ log' = <<>>
    /\ NoAddLocals
    /\ UNCHANGED <<port_lst, applied>>

Down ==
    /\ ReadKey("KEY_DOWN")
    /\ current_index' = IF current_index < Len(port_lst) - 1
                        THEN current_index + 1 ELSE current_index
    /\ pc' = "loop"
    /\ log' = <<>>
    /\ NoAddLocals
    /\ UNCHANGED <<port_lst, applied>>

\* a slip of line 237: without the `continue` the empty collection is indexed
Toggle_NoContinue ==
    /\ ReadKey(" ")
    /\ NoAddLocals
    /\ IF port_lst = <<>>
       THEN /\ pc' = "crashed"
            /\ log' = <<PopupEntry(<<"No ports to toggle">>), RaiseEntry(<<"IndexError">>)>>
            /\ UNCHANGED <<port_lst, current_index, applied>>
       ELSE \E ok \in BOOLEAN :
            LET k == PyIndex(current_index, Len(port_lst))
                t == toggle(port_lst[k])
            IN  /\ pc' = "loop"
                /\ log' = <<RunEntry(t.argv, ok)>>
                /\ port_lst' = [port_lst EXCEPT ![k] = t.self]
                /\ applied' = IF ok THEN [applied EXCEPT ![k] = Disposition(t.self.allowed)]
                              ELSE applied
                /\ UNCHANGED current_index

Toggle ==
    /\ ReadKey(" ")
    /\ pc' = "loop"
    /\ NoAddLocals
    /\ IF port_lst = <<>>
       THEN /\ log' = <<PopupEntry(<<"No ports to toggle">>)>>
            /\ UNCHANGED <<port_lst, current_index, applied>>
       ELSE \E ok \in BOOLEAN :
            LET k == PyIndex(current_index, Len(port_lst))
                t == toggle(port_lst[k])
            IN  /\ log' = <<RunEntry(t.argv, ok)>>
                /\ port_lst' = [port_lst EXCEPT ![k] = t.self]
                /\ applied' = IF ok THEN [applied EXCEPT ![k] = Disposition(t.self.allowed)]
                              ELSE applied
                /\ UNCHANGED current_index

\* 'a': the prompt is read and split; an empty input continues the loop
AddKey ==
    /\ ReadKey("a")
    /\ \E typed \in TypedInputs :
         LET user_input == input_window(typed)
         IN  IF user_input = <<>>
             THEN /\ pc' = "loop"
                  /\ NoAddLocals
             ELSE /\ pc' = "adding"
                  /\ user_input_lst' = Split(user_input)
                  /\ tok_i' = 1
    /\ log' = <<>>
    /\ UNCHANGED <<port_lst, current_index, applied>>

\* one iteration of `for port_input in user_input_lst`
AddToken ==
    /\ pc = "adding"
    /\ LET port_input == user_input_lst[tok_i]
           match == AddMatch(port_input)
           port == PortOfMatch(match)
       IN  IF ~match.matched
           THEN /\ log' = Append(log, PopupEntry(<<"Invalid port: ", port_input>>))
                /\ UNCHANGED <<port_lst, applied>>
           ELSE IF AlreadyExists(port, port_lst)
           THEN /\ log' = Append(log, PopupEntry(<<"Port ", port.port_num, " already exists">>))
                /\ UNCHANGED <<port_lst, applied>>
           ELSE \E ok \in BOOLEAN :
                LET c == IF port.allowed THEN allow(port) ELSE deny(port)
                IN  /\ log' = log \o <<RunEntry(c.argv, ok), AppendEntry>>
                    /\ port_lst' = Append(port_lst, c.self)
                    /\ applied' = Append(applied,
                                         IF ok THEN Disposition(c.self.allowed) ELSE "none")
    /\ tok_i' = tok_i + 1
    /\ pc' = IF tok_i = Len(user_input_lst) THEN "loop" ELSE "adding"
    /\ UNCHANGED <<lines, current_index, key_input, user_input_lst, pre_lst, view>>

\* a slip of lines 283-284: the cursor is not clamped after the pop
Delete_NoClamp ==
    /\ ReadKey("d")
    /\ NoAddLocals
    /\ LET k == PyIndex(current_index, Len(port_lst))
       IN  IF k = 0
           THEN /\ pc' = "crashed"
                /\ log' = <<RaiseEntry(<<"IndexError">>)>>
                /\ UNCHANGED <<port_lst, current_index, applied>>
           ELSE \E ok \in BOOLEAN :
                /\ pc' = "loop"
                /\ log' = <<RunEntry(delete(port_lst[k]).argv, ok)>>
                /\ port_lst' = RemoveAt(port_lst, k)
                /\ applied' = RemoveAt(applied, k)
                /\ UNCHANGED current_index

\* 'd': port_lst[current_index] raises IndexError when the index is out of range
Delete ==
    /\ ReadKey("d")
    /\ NoAddLocals
    /\ LET k == PyIndex(current_index, Len(port_lst))
       IN  IF k = 0
           THEN /\ pc' = "crashed"
                /\ log' = <<RaiseEntry(<<"IndexError">>)>>
                /\ UNCHANGED <<port_lst, current_index, applied>>
           ELSE \E ok \in BOOLEAN :
                /\ pc' = "loop"
                /\ log' = <<RunEntry(delete(port_lst[k]).argv, ok)>>
                /\ port_lst' = RemoveAt(port_lst, k)
                /\ applied' = RemoveAt(applied, k)
                /\ current_index' = IF current_index >= Len(port_lst) - 1
                                    THEN Len(port_lst) - 2 ELSE current_index

Help ==
    /\ ReadKey("h")
    /\ pc' = "loop"
    /\ log' = <<PopupEntry(<<"Help">>)>>
    /\ NoAddLocals
    /\ UNCHANGED <<port_lst, current_index, applied>>

Next ==
    \/ GetPorts
    \/ EnterLoop
    \/ Render
    \/ Quit
    \/ Up
    \/ Down
    \/ Toggle
    \/ AddKey
    \/ AddToken
    \/ Delete
    \/ Help

Spec == Init /\ [][Next]_vars

-----------------------------------------------------------------------------
(* Properties *)

\* positions of main at or after the first iteration of the key loop
InSession == pc \in {"loop", "getch", "adding", "done", "crashed"}

\* lst is in ascending order by port_num
Sorted(lst) ==
    \A i, j \in DOMAIN lst : i < j => ~StrLess(lst[j].port_num, lst[i].port_num)

\* lst[i] and some other entry of lst name the same (port_num, protocol)
PairIn(port_num, protocol, lst) ==
    \E i \in DOMAIN lst : lst[i].port_num = port_num /\ lst[i].protocol = protocol

\* C1: in every state of the session with a non-empty collection, the cursor
\* is a valid index: 0 <= current_index < len(port_lst).
C1_CursorIsValidIndex ==
    (InSession /\ port_lst # <<>>) =>
        (0 <= current_index /\ current_index < Len(port_lst))

\* C2: once the key loop has started, the session ends only by the quit key:
\* no other key event terminates it or raises past the loop.
C2_EndsOnlyByQuit ==
    pc \in {"done", "crashed"} => (pc = "done" /\ key_input = "q")

\* C3: no two Rules of the collection have the same (port_num, protocol),
\* from the initial load on.
C3_UniquePairs ==
    \A i, j \in DOMAIN port_lst :
        i # j => ~(/\ port_lst[i].port_num = port_lst[j].port_num
                   /\ port_lst[i].protocol = port_lst[j].protocol)

\* C4 as stated: after the initial load and after any sequence of key events,
\* add included, the collection is in ascending order by port_num.
C4_AlwaysSorted == (pc = "loaded" \/ InSession) => Sorted(port_lst)

\* C4 amended: the initial load yields a collection in ascending order by
\* port_num, and every step that appends no Rule (up, down, toggle, delete,
\* help, quit, an add token rejected as invalid or duplicate) keeps an ordered
\* collection ordered; only an add that appends a Rule can break the order.
C4_SortedUnlessAppended ==
    [][/\ (pc = "start" /\ pc' = "loaded") => Sorted(port_lst')
       /\ (pc # "start" /\ Sorted(port_lst) /\ Len(port_lst') <= Len(port_lst))
             => Sorted(port_lst')]_vars

\* C4 witness: a delete has acted on a loaded collection of two Rules with
\* different port_nums, and the remaining collection is in order.
C4_Witness ==
    /\ pc = "loop" /\ key_input = "d"
    /\ Len(pre_lst) = 2 /\ StrLess(pre_lst[1].port_num, pre_lst[2].port_num)
    /\ Len(port_lst) = 1

\* C5: each Rule's allowed flag equals the disposition the external tool holds
\* for it, i.e. the one set by the last successful allow/deny command (a failed
\* command leaves the flag unchanged).
C5_MirrorMatchesTool ==
    \A i \in DOMAIN port_lst : applied[i] = Disposition(port_lst[i].allowed)

-----------------------------------------------------------------------------
(* The add-ports grammar [!]<port_id>[/<tcp|udp>], read off a token in full *)

TokenDenied(t) == t # <<>> /\ Head(t) = "!"

\* the token without its marker: the rule identifier <port_id>[/<protocol>]
TokenBody(t) == IF TokenDenied(t) THEN Tail(t) ELSE t

SlashAt(b) ==
    LET sl == {i \in DOMAIN b : b[i] = "/"}
    IN  IF sl = {} THEN Len(b) + 1 ELSE CHOOSE k \in sl : \A j \in sl : k <= j

TokenPortId(t) == SubSeq(TokenBody(t), 1, SlashAt(TokenBody(t)) - 1)

TokenSuffix(t) == SubSeq(TokenBody(t), SlashAt(TokenBody(t)) + 1, Len(TokenBody(t)))

TokenProtocol(t) ==
    IF SlashAt(TokenBody(t)) > Len(TokenBody(t)) THEN "any"
    ELSE IF TokenSuffix(t) = <<"t", "c", "p">> THEN "tcp"
    ELSE IF TokenSuffix(t) = <<"u", "d", "p">> THEN "udp"
    ELSE "?"

WellFormedToken(t) ==
    /\ TokenPortId(t) # <<>>
    /\ \A i \in DOMAIN TokenPortId(t) : TokenPortId(t)[i] \in WordChars
    /\ TokenProtocol(t) # "?"

TokenRule(t) == Port(TokenPortId(t), ~TokenDenied(t), TokenProtocol(t))

TokenArgv(t) ==
    <<"sudo", "ufw", IF TokenDenied(t) THEN "deny" ELSE "allow", TokenBody(t)>>

\* the token the for loop is at
CurToken == user_input_lst[tok_i]

\* the for loop moves on to the next token, or back to the key loop after the last
MovesOn ==
    /\ user_input_lst' = user_input_lst
    /\ tok_i' = tok_i + 1
    /\ pc' = IF tok_i < Len(user_input_lst) THEN "adding" ELSE "loop"

\* C6: an add token whose (port_id, protocol) is that of a Rule in the
\* collection (one appended earlier from the same input included) issues no
\* command, leaves the collection as it is, is reported as a duplicate, and
\* the loop moves on to the remaining tokens.
C6_DuplicateSkipped ==
    [][(/\ pc = "adding"
        /\ WellFormedToken(CurToken)
        /\ PairIn(TokenPortId(CurToken), TokenProtocol(CurToken), port_lst))
       => /\ port_lst' = port_lst
          /\ log' = Append(log, PopupEntry(<<"Port ", TokenPortId(CurToken), " already exists">>))
          /\ MovesOn]_vars

\* C6 witness: the second token of an input was reported as a duplicate of the
\* Rule the first token of the same input had just appended.
C6_Witness ==
    /\ key_input = "a" /\ pc = "loop"
    /\ Len(user_input_lst) = 2
    /\ Len(log) = 3
    /\ log[1].op = "run" /\ log[2].op = "append" /\ log[3].op = "popup"
    /\ Len(port_lst) = Len(pre_lst) + 1
    /\ TokenPortId(user_input_lst[2]) = port_lst[Len(port_lst)].port_num
    /\ TokenProtocol(user_input_lst[2]) = port_lst[Len(port_lst)].protocol

\* C7: an add token that is well formed and whose (port_id, protocol) pair is
\* not in the collection is accepted: one allow/deny command is issued and a
\* Rule with that pair is appended, also when a Rule with the same port_id and
\* another protocol is in the collection.
C7_NewPairAccepted ==
    [][(/\ pc = "adding"
        /\ WellFormedToken(CurToken)
        /\ ~PairIn(TokenPortId(CurToken), TokenProtocol(CurToken), port_lst))
       => /\ port_lst' = Append(port_lst, TokenRule(CurToken))
          /\ Len(log') = Len(log) + 2
          /\ log'[Len(log) + 1].op = "run"
          /\ log'[Len(log) + 1].argv = TokenArgv(CurToken)
          /\ log'[Len(log) + 2].op = "append"]_vars

\* C8: an add token that does not conform in full to the grammar is reported
\* as invalid, creates no Rule and issues no command, and the loop moves on.
C8_MalformedRejected ==
    [][(pc = "adding" /\ ~WellFormedToken(CurToken))
       => /\ port_lst' = port_lst
          /\ log' = Append(log, PopupEntry(<<"Invalid port: ", CurToken>>))
          /\ MovesOn]_vars

\* the precondition of C9: every token well formed, port_ids pairwise distinct
\* and none of them in the collection the add started from
C9_Pre(toks, lst) ==
    /\ toks # <<>>
    /\ \A k \in DOMAIN toks : WellFormedToken(toks[k])
    /\ \A k, l \in DOMAIN toks : k # l => TokenPortId(toks[k]) # TokenPortId(toks[l])
    /\ \A k \in DOMAIN toks : \A i \in DOMAIN lst : lst[i].port_num # TokenPortId(toks[k])

\* C9: for such an input, the handler issues one command per token in input
\* order (allow, or deny for a token marked !), each before its Rule is
\* appended, and the collection ends as the previous one followed by the new
\* Rules in input order, allowed as marked.
C9_AddInOrder ==
    (pc = "loop" /\ key_input = "a" /\ C9_Pre(user_input_lst, pre_lst)) =>
        /\ port_lst = pre_lst \o [k \in DOMAIN user_input_lst |-> TokenRule(user_input_lst[k])]
        /\ Len(log) = 2 * Len(user_input_lst)
        /\ \A k \in DOMAIN user_input_lst :
              /\ log[2 * k - 1].op = "run"
              /\ log[2 * k - 1].argv = TokenArgv(user_input_lst[k])
              /\ log[2 * k].op = "append"

\* C9 witness: an input of two such tokens, the second marked !, added to a
\* non-empty collection.
C9_Witness ==
    /\ pc = "loop" /\ key_input = "a"
    /\ C9_Pre(user_input_lst, pre_lst)
    /\ Len(user_input_lst) = 2
    /\ TokenDenied(user_input_lst[2]) /\ ~TokenDenied(user_input_lst[1])
    /\ TokenProtocol(user_input_lst[1]) = "tcp"
    /\ Len(port_lst) = Len(pre_lst) + 2

-----------------------------------------------------------------------------
(* The status listing *)

\* the Rule a well-formed numbered line states
LineRule(line) ==
    LET m == RuleMatch(line)
    IN  Port(m.g1, m.g3 = "ALLOW", IF m.g2 = "" THEN "any" ELSE m.g2)

\* the precondition of C10: the numbered lines are all well formed and even in number
C10_Pre(ls) ==
    LET numbered == SelectSeq(ls, NumberedMatch)
    IN  /\ \A j \in DOMAIN numbered : RuleMatch(numbered[j]).matched
        /\ Len(numbered) % 2 = 0

\* C10: for such a status text of 2n numbered lines, get_ports returns n
\* Rules, in ascending order of port_num, each with the port_num, protocol and
\* allowed of one of the n retained lines.
C10_ParseWellFormed ==
    (pc \in {"loaded", "aborted"} /\ C10_Pre(lines)) =>
        LET numbered == SelectSeq(lines, NumberedMatch)
            n == Len(numbered) \div 2
        IN  /\ pc = "loaded"
            /\ Len(port_lst) = n
            /\ Sorted(port_lst)
            /\ \A i \in DOMAIN port_lst :
                  \E j \in 1..n : port_lst[i] = LineRule(numbered[j])

\* C10 witness: four well-formed numbered lines whose first two are listed in
\* descending order of port_num were parsed into two Rules.
C10_Witness ==
    /\ pc = "loaded" /\ C10_Pre(lines)
    /\ Len(SelectSeq(lines, NumberedMatch)) = 4
    /\ StrLess(LineRule(SelectSeq(lines, NumberedMatch)[2]).port_num,
               LineRule(SelectSeq(lines, NumberedMatch)[1]).port_num)
    /\ Len(port_lst) = 2


\* the numbered lines of the status text, in listing order
Numbered == SelectSeq(lines, NumberedMatch)

\* get_ports has returned or raised and its locals are still there
Parsed == pc \in {"loaded", "aborted"}

\* how often rule r is stated by the lines ls / held by the collection lst
TimesStated(r, ls) == Cardinality({j \in DOMAIN ls : LineRule(ls[j]) = r})
TimesHeld(r, lst) == Cardinality({i \in DOMAIN lst : lst[i] = r})

\* the precondition of C11: the numbered lines are well formed and every rule
\* they state is stated by exactly two of them
C11_Pre ==
    /\ \A j \in DOMAIN Numbered : RuleMatch(Numbered[j]).matched
    /\ \A j \in DOMAIN Numbered : TimesStated(LineRule(Numbered[j]), Numbered) = 2

\* C11: for such a status text, whatever the order of its lines, get_ports
\* returns each distinct rule exactly once (and nothing else).
C11_EachRuleOnce ==
    (Parsed /\ C11_Pre) =>
        /\ pc = "loaded"
        /\ \A j \in DOMAIN Numbered : TimesHeld(LineRule(Numbered[j]), port_lst) = 1
        /\ \A i \in DOMAIN port_lst : \E j \in DOMAIN Numbered : port_lst[i] = LineRule(Numbered[j])

\* the numbered lines get_ports retains when their number is even
Retained == SubSeq(Numbered, 1, Len(Numbered) \div 2)

\* C12 as stated: a numbered line that fails the strict pattern, wherever it
\* stands in the listing, makes the parse fail with the error naming it, and
\* no Rules are returned.
C12_AnyBadLineFails ==
    (Parsed /\ \E j \in DOMAIN Numbered : ~RuleMatch(Numbered[j]).matched) =>
        /\ pc = "aborted"
        /\ port_lst = <<>>
        /\ \E j \in DOMAIN Numbered :
              /\ ~RuleMatch(Numbered[j]).matched
              /\ log = <<RaiseEntry(<<"Invalid line", Numbered[j]>>)>>

\* C12 amended: when the numbered lines are even in number, a line among the
\* retained first half that fails the strict pattern makes the parse fail with
\* the error naming the first such line, and no Rules are returned; a line of
\* the discarded second half is never matched against the strict pattern;
\* lines that are not numbered are neither counted nor an error.
C12_RetainedBadLineFails ==
    (Parsed /\ Len(Numbered) % 2 = 0) =>
        LET bad == {j \in DOMAIN Retained : ~RuleMatch(Retained[j]).matched}
        IN  IF bad # {}
            THEN /\ pc = "aborted"
                 /\ port_lst = <<>>
                 /\ log = <<RaiseEntry(<<"Invalid line",
                                         Retained[CHOOSE j \in bad : \A k \in bad : j <= k]>>)>>
            ELSE pc = "loaded" /\ Len(port_lst) = Len(Retained)

\* C12 witness: a listing of four numbered lines whose second retained line
\* fails the strict pattern was refused.
C12_Witness ==
    /\ pc = "aborted"
    /\ Len(Numbered) = 4
    /\ RuleMatch(Retained[1]).matched /\ ~RuleMatch(Retained[2]).matched

\* C13: a status text with an odd number of numbered lines makes get_ports
\* fail with the parity error, before any line is matched against the strict
\* pattern, and the session never enters the key loop.
C13_OddCountAborts ==
    (Parsed /\ Len(Numbered) % 2 = 1) =>
        /\ pc = "aborted"
        /\ port_lst = <<>>
        /\ log = <<RaiseEntry(<<"The amount of ports are not diviced by 2", <<>>>>)>>
        /\ ~ENABLED Next

\* C13 witness: three numbered lines, the first of which fails the strict
\* pattern, were refused for their number.
C13_Witness ==
    /\ pc = "aborted"
    /\ Len(Numbered) = 3
    /\ ~RuleMatch(Numbered[1]).matched

\* how the external tool is told which rule is meant: port_id or port_id/protocol
RuleSpecText(r) ==
    IF r.protocol = "any" THEN r.port_num
    ELSE r.port_num \o <<"/">> \o ProtoChars(r.protocol)

\* the key that getch() hands to the handler in this step
Pressed(k) == pc = "getch" /\ key_input' = k

\* the cursor selects a Rule of the collection lst
Selects(i, lst) == 0 <= i /\ i < Len(lst)

Min(a, b) == IF a < b THEN a ELSE b
Max(a, b) == IF a > b THEN a ELSE b

\* C14: the delete key on a non-empty collection with the cursor at index i
\* issues exactly one delete command, for the Rule at i and in the variant of
\* its allowed flag; the collection becomes the previous one without exactly
\* that Rule, the others keeping fields and order; and the cursor becomes
\* min(i, new last index).
C14_DeleteRemovesSelected ==
    [][(Pressed("d") /\ port_lst # <<>>) =>
         LET i == current_index
         IN  /\ Selects(i, port_lst)
             /\ Len(log') = 1
             /\ log'[1].op = "run"
             /\ log'[1].argv = <<"sudo", "ufw", "delete",
                                 IF port_lst[i + 1].allowed THEN "allow" ELSE "deny",
                                 RuleSpecText(port_lst[i + 1])>>
             /\ port_lst' = [j \in 1..(Len(port_lst) - 1) |->
                               IF j <= i THEN port_lst[j] ELSE port_lst[j + 1]]
             /\ current_index' = Min(i, Len(port_lst') - 1)]_vars

\* C15: two consecutive toggle calls on a Rule, whatever its starting allowed
\* value, restore that value, issue exactly two commands (the first the
\* opposite of the starting state, the second the starting state: one deny and
\* one allow), and change no field other than allowed.  The first call is the
\* one the toggle key has just made on a Rule of the collection, the second is
\* made on its result.
C15_ToggleTwiceRestores ==
    (pc = "loop" /\ key_input = " " /\ port_lst # <<>>) =>
        \E k \in DOMAIN port_lst :
            LET p == pre_lst[k]
                q == port_lst[k]
                t2 == toggle(q)
                first == IF p.allowed THEN "deny" ELSE "allow"
                second == IF p.allowed THEN "allow" ELSE "deny"
            IN  /\ \A j \in DOMAIN port_lst : j # k => port_lst[j] = pre_lst[j]
                /\ q = [p EXCEPT !.allowed = ~p.allowed]
                /\ t2.self = p
                /\ Len(log) = 1
                /\ log[1].op = "run"
                /\ log[1].argv = <<"sudo", "ufw", first, RuleSpecText(p)>>
                /\ t2.argv = <<"sudo", "ufw", second, RuleSpecText(p)>>

\* C15 witness: the toggle key has allowed a Rule that was denied.
C15_Witness ==
    /\ pc = "loop"
    /\ key_input = " "
    /\ Len(log) = 1
    /\ log[1].op = "run"
    /\ log[1].argv[3] = "allow"
    /\ \E k \in DOMAIN port_lst : ~pre_lst[k].allowed /\ port_lst[k].allowed

\* the rows left for the list in the draw that precedes getch()
VisibleHeight == max_y - HeaderRows

\* C16: for 0 <= selected_index < total_count and visible_height >= 1 the
\* scroll window of the draw satisfies start <= selected_index < end,
\* end - start <= visible_height, start >= 0 and end <= total_count.
C16_WindowHoldsSelection ==
    (pc = "getch" /\ Selects(current_index, port_lst) /\ VisibleHeight >= 1) =>
        /\ start_index <= current_index
        /\ current_index < end_index
        /\ end_index - start_index <= VisibleHeight
        /\ start_index >= 0
        /\ end_index <= Len(port_lst)

\* C16 witness: a list longer than the screen, drawn scrolled down to its
\* selected last Rule.
C16_Witness ==
    /\ pc = "getch"
    /\ VisibleHeight = 2
    /\ Len(port_lst) = 3
    /\ current_index = 2
    /\ start_index = 1
    /\ end_index = 3

\* the message dialogs the running handler has shown
PopupCount(l) == Cardinality({i \in DOMAIN l : l[i].op = "popup"})

\* the dialogs (the input prompt of the add key, message popups) that the
\* handler of the last key has opened and resolved so far
DialogsResolved ==
    (IF pc \in {"loop", "adding"} /\ key_input = "a" THEN 1 ELSE 0) + PopupCount(log)

\* C17 as stated: after a dialog resolves the controller is back at Browsing:
\* it has not terminated, and no second dialog is opened before the key loop
\* is reached again.
C17_BrowsingAfterDialog ==
    /\ DialogsResolved <= 1
    /\ pc \in {"done", "crashed"} => DialogsResolved = 0

\* this step opens and resolves a dialog
DialogStep == Pressed("a") \/ PopupCount(log') > PopupCount(log)

\* C17 amended: a step that resolves a dialog never terminates the session;
\* after help and toggle-on-empty the controller is back at the key loop;
\* after the input prompt or a token's error message it is back at the key
\* loop unless tokens of the add input remain, in which case the add handler
\* goes on with the next token (and may show a further message) first.
C17_DialogResumes ==
    [][DialogStep =>
         /\ pc' \in {"loop", "adding"}
         /\ pc' = "adding" => /\ key_input' = "a"
                              /\ tok_i' <= Len(user_input_lst')]_vars

\* C17 witness: inside the add handler a token's error message has been
\* dismissed and a further token remains.
C17_Witness ==
    /\ pc = "adding"
    /\ log # <<>>
    /\ log[Len(log)].op = "popup"
    /\ tok_i = Len(user_input_lst)

\* C18: the toggle key on an empty collection issues no command and changes
\* neither collection nor cursor (a message is shown); on a non-empty
\* collection it issues exactly one allow/deny command and flips the allowed
\* flag of the Rule at the cursor only: every other Rule, order, size and the
\* cursor stay.
C18_ToggleFlipsSelected ==
    [][Pressed(" ") =>
         IF port_lst = <<>>
         THEN /\ port_lst' = port_lst
              /\ current_index' = current_index
              /\ Len(log') = 1
              /\ log'[1].op = "popup"
         ELSE /\ Selects(current_index, port_lst)
              /\ Len(log') = 1
              /\ log'[1].op = "run"
              /\ log'[1].argv[3] \in {"allow", "deny"}
              /\ port_lst' = [port_lst EXCEPT ![current_index + 1].allowed = ~@]
              /\ current_index' = current_index]_vars

\* C19: up decrements the cursor by one only when cursor > 0, down increments
\* it by one only when cursor < last index; otherwise (top, bottom, empty
\* collection) the cursor stays; up and down issue no command and leave the
\* collection unchanged.
C19_UpDownOnlyMoveCursor ==
    [][(Pressed("KEY_UP") \/ Pressed("KEY_DOWN")) =>
         /\ Pressed("KEY_UP") =>
               current_index' = IF current_index > 0
                                THEN current_index - 1 ELSE current_index
         /\ Pressed("KEY_DOWN") =>
               current_index' = IF current_index < Len(port_lst) - 1
                                THEN current_index + 1 ELSE current_index
         /\ port_lst' = port_lst
         /\ applied' = applied
         /\ log' = <<>>]_vars

\* C19 witness: down has been handled with the cursor now on the last of
\* several Rules (moved there, or already there and left alone).
C19_Witness ==
    /\ pc = "loop"
    /\ key_input = "KEY_DOWN"
    /\ Len(port_lst) >= 2
    /\ current_index = Len(port_lst) - 1

\* the range C20 gives the cursor
CursorInRange(i, lst) == -1 <= i /\ i <= Max(Len(lst) - 1, 0)

\* C20: the cursor always satisfies -1 <= cursor <= max(len(collection) - 1, 0),
\* and it becomes -1 only by a delete that empties the collection.
C20_CursorRange ==
    [][/\ CursorInRange(current_index, port_lst)
       /\ CursorInRange(current_index', port_lst')
       /\ (current_index' = -1 /\ current_index # -1) =>
              (Pressed("d") /\ port_lst # <<>> /\ port_lst' = <<>>)]_vars

\* C20 witness: the only Rule has been deleted and the cursor is -1.
C20_Witness ==
    /\ pc = "loop"
    /\ key_input = "d"
    /\ port_lst = <<>>
    /\ current_index = -1

====
